---- MODULE Spec2Model ----
(***************************************************************************)
(* Model of osc-blueqat-server (src/src/main.rs): three tokio tasks        *)
(* (receiver_loop, runner_loop, sender_loop) connected by two bounded mpsc *)
(* channels, and main, which waits for ctrl_c and aborts the three tasks.  *)
(*                                                                         *)
(* Every action is one stretch of code between two await points of a task. *)
(* Variables whose name ends in Log are history variables: they record     *)
(* what happened and are never read by the program's actions.              *)
(***************************************************************************)
EXTENDS Integers, Sequences, FiniteSets, TLC

(***************************************************************************)
(* Bounds of the model.                                                    *)
(***************************************************************************)
\* Number of datagrams the network delivers to the Receiver in one run.
MaxDatagrams == 3

\* Capacity of both mpsc channels.  main.rs:26 sets QUEUE_LEN to 100; the
\* model keeps the name and checks the channel discipline at a small
\* capacity, so that a full channel is reached within MaxDatagrams.
QUEUE_LEN == 2

(***************************************************************************)
(* Data: OSC packets, Requests, Responses.                                 *)
(***************************************************************************)
\* An OSC message as far as the Request conversion reads it: the instruction
\* it names and its qubit arguments.
Msg(addr, n1, n2) == [addr |-> addr, n1 |-> n1, n2 |-> n2]

\* The variants of Request that runner_loop matches by name.
HandledKinds == {"X", "Y", "Z", "H", "CX", "Mz"}

\* The variants of Request: the six handled ones and one standing for the
\* variants that fall to the `_ => unimplemented!()` arm.
RequestKinds == HandledKinds \cup {"Other"}

\* The messages the clients of the model send: a gate on one qubit and one
\* on two qubits, measurements of qubit 0 and of qubit 1, an instruction the
\* runner does not implement, and "Unknown", which names no Request.
Messages ==
    { Msg("H", 1, 0), Msg("CX", 0, 1), Msg("Mz", 0, 0), Msg("Mz", 1, 0),
      Msg("Other", 0, 0), Msg("Unknown", 0, 0) }

\* The messages the clients also send wrapped in a bundle.
BundledMessages == { Msg("Mz", 0, 0), Msg("Unknown", 0, 0) }

\* OscPacket::Message(msg) and OscPacket::Bundle(bundle).
PktMessage(m) == [tag |-> "message", msg |-> m, content |-> <<>>]
PktBundle(c) == [tag |-> "bundle", msg |-> Msg("", 0, 0), content |-> c]

\* The packets that reach the Receiver: bare messages, bundles of one
\* message, the empty bundle, bundles of two messages, a nested bundle.
Packets ==
    { PktMessage(m) : m \in Messages }
    \cup { PktBundle(<<PktMessage(m)>>) : m \in BundledMessages }
    \cup { PktBundle(<<>>) }
    \cup { PktBundle(<<PktMessage(Msg("H", 1, 0)), PktMessage(Msg("Mz", 1, 0))>>) }
    \cup { PktBundle(<<PktBundle(<<>>)>>) }

\* Bytes that are no OSC packet.
BadBytes == [tag |-> "garbage", msg |-> Msg("", 0, 0), content |-> <<>>]

\* The datagrams of the model: the encodings of Packets, and BadBytes.
Datagrams == Packets \cup {BadBytes}

\* rosc::decoder::decode: Err on bytes that are no packet, else the packet.
Decode(d) ==
    IF d.tag = "garbage"
    THEN [ok |-> FALSE, packet |-> d]
    ELSE [ok |-> TRUE, packet |-> d]

NoMsg == Msg("", 0, 0)
NoReq == [kind |-> "none", n1 |-> 0, n2 |-> 0, id |-> 0]
NoResp == [bit |-> 0, prob |-> 0, id |-> 0]

\* Request::try_from(OscMessage): Err for an instruction that names no
\* Request variant.  id is the number of the datagram the Request came in
\* (history only: the program never reads it).
TryFrom(m, id) ==
    IF m.addr \in RequestKinds
    THEN [ok |-> TRUE, req |-> [kind |-> m.addr, n1 |-> m.n1, n2 |-> m.n2, id |-> id]]
    ELSE [ok |-> FALSE, req |-> NoReq]

(***************************************************************************)
(* State.                                                                  *)
(***************************************************************************)
VARIABLES
    main_pc,       \* main: "wait" (in ctrl_c().await), "ok", "err" (returned)
    receiver_pc,   \* receiver_loop: "bind", "recv", "send", or a final state
    receiver_msg,  \* the Request receiver_loop holds in chan_tx.send(msg)
    runner_pc,     \* runner_loop: "start", "recv", "sim", "send", or final
    runner_msg,    \* the Mz Request runner_loop is handling
    runner_resp,   \* the Response runner_loop holds in result_tx.send(..)
    ops,           \* runner_loop's accumulator (BlueqatOperations)
    result,        \* runner_loop's result String
    sender_pc,     \* sender_loop: "bind", "recv", or a final state
    ops_chan,      \* channel ops_tx -> ops_rx (Requests)
    result_chan,   \* channel result_tx -> result_rx (Responses)
    exit,          \* why each task ended ("" while it runs)
    dgLog,         \* history: the datagrams rx.recv returned
    reqLog,        \* history: the Requests pushed onto ops_chan
    procLog,       \* history: the Requests whose match arm completed
    simLog,        \* history: the accumulators handed to sim.send_receive
    retLog,        \* history: the strings sim.send_receive wrote
    respLog,       \* history: the Responses pushed onto result_chan
    sentLog        \* history: the packets handed to tx.send_to

vars == <<main_pc, receiver_pc, receiver_msg, runner_pc, runner_msg,
          runner_resp, ops, result, sender_pc, ops_chan, result_chan, exit,
          dgLog, reqLog, procLog, simLog, retLog, respLog, sentLog>>

receiverVars == <<receiver_pc, receiver_msg>>
runnerVars == <<runner_pc, runner_msg, runner_resp, ops, result>>
logVars == <<dgLog, reqLog, procLog, simLog, retLog, respLog, sentLog>>

\* Final states of a task: it returned Err, it panicked, it was cancelled.
Finals == {"err", "panic", "aborted"}

\* A task that has ended has dropped its channel halves.
Ended(pc) == pc \in Finals

\* BlueqatOperations::new(): no instruction, initialize() not called.
NewOps == [init |-> FALSE, insts |-> <<>>]

Init ==
    /\ main_pc = "wait"
    /\ receiver_pc = "bind"
    /\ receiver_msg = NoReq
    /\ runner_pc = "start"
    /\ runner_msg = NoReq
    /\ runner_resp = NoResp
    /\ ops = NewOps
    /\ result = <<>>
    /\ sender_pc = "bind"
    /\ ops_chan = <<>>
    /\ result_chan = <<>>
    /\ exit = [receiver |-> "", runner |-> "", sender |-> "", main |-> ""]
    /\ dgLog = <<>>
    /\ reqLog = <<>>
    /\ procLog = <<>>
    /\ simLog = <<>>
    /\ retLog = <<>>
    /\ respLog = <<>>
    /\ sentLog = <<>>

(***************************************************************************)
(* The two channels: mpsc::channel(QUEUE_LEN).                             *)
(***************************************************************************)
\* Mutant of HasRoom: a channel without a capacity.
HasRoomUnbounded(chan) == TRUE

\* send(x).await completes only when the channel holds fewer than QUEUE_LEN
\* items; until then the sending task is suspended with x.
HasRoom(chan) == Len(chan) < QUEUE_LEN

\* Mutant of Closed: a send that does not notice that the consumer is gone.
ClosedNever(consumer_pc) == FALSE

\* send(x).await returns Err, whether the channel has room or not, once the
\* task that owns the receiving half has ended and dropped it.
Closed(consumer_pc) == Ended(consumer_pc)

\* Mutant of RecvNone: None as soon as the producer is gone, items or not.
RecvNoneEarly(chan, producer_pc) == Ended(producer_pc)

\* recv().await returns None once the channel is empty and the task that
\* owns the sending half has ended and dropped it; until the channel is
\* empty it returns the queued items.
RecvNone(chan, producer_pc) == chan = <<>> /\ Ended(producer_pc)

\* Mutant of Enqueue: the new item overtakes the items already queued.
EnqueueFront(chan, x) == <<x>> \o chan

\* A completed send puts x behind the items already in the channel; recv
\* takes the item at the head.
Enqueue(chan, x) == Append(chan, x)

(***************************************************************************)
(* receiver_loop.                                                          *)
(***************************************************************************)
\* Mutant of OnDecodeError: the strict policy, `?` on the decode result.
OnDecodeErrorStrict == "return"

\* What receiver_loop does with a datagram the codec cannot decode:
\* warn! and `continue`.
OnDecodeError == "continue"

\* Mutant of Frame: a message outside a bundle is refused.
FrameBundleOnly(packet) ==
    IF packet.tag = "message"
    THEN [ok |-> FALSE, msg |-> NoMsg, err |-> "Message without Bundle"]
    ELSE IF Len(packet.content) = 1 /\ packet.content[1].tag = "message"
    THEN [ok |-> TRUE, msg |-> packet.content[1].msg, err |-> ""]
    ELSE [ok |-> FALSE, msg |-> NoMsg, err |-> "Received empty bundle."]

\* The match on the decoded packet: the single message of the packet, or
\* the error of ensure!/bail!.
Frame(packet) ==
    IF packet.tag = "message"
    THEN [ok |-> TRUE, msg |-> packet.msg, err |-> ""]
    ELSE IF Len(packet.content) = 0
    THEN [ok |-> FALSE, msg |-> NoMsg, err |-> "Received empty bundle."]
    ELSE IF Len(packet.content) # 1
    THEN [ok |-> FALSE, msg |-> NoMsg, err |-> "Multiple messages in same bundle."]
    ELSE LET last == packet.content[Len(packet.content)] IN
         IF last.tag = "message"
         THEN [ok |-> TRUE, msg |-> last.msg, err |-> ""]
         ELSE [ok |-> FALSE, msg |-> NoMsg, err |-> "Received nested bundle."]

\* What ensure! and bail! do in receiver_loop: return Err from the function.
OnFramingError == "return"

\* What the `?` after Request::try_from does on Err: return Err.
OnConvertError == "return"

\* One pass of the loop body on datagram d, the id-th of the run, up to the
\* next await: where the loop goes and what it carries there.
ReceiverBody(d, id) ==
    LET dec == Decode(d)
        fr == Frame(dec.packet)
        cv == TryFrom(fr.msg, id)
    IN  IF ~dec.ok
        THEN [to |-> OnDecodeError, req |-> NoReq, err |-> "OSC Error"]
        ELSE IF ~fr.ok
        THEN [to |-> OnFramingError, req |-> NoReq, err |-> fr.err]
        ELSE IF ~cv.ok
        THEN [to |-> OnConvertError, req |-> NoReq, err |-> "try_from"]
        ELSE [to |-> "send", req |-> cv.req, err |-> ""]

\* UdpSocket::bind(host_rx_addr).await? succeeds or fails.
ReceiverBind ==
    /\ receiver_pc = "bind"
    /\ \/ /\ receiver_pc' = "recv"
          /\ exit' = exit
       \/ /\ receiver_pc' = "err"
          /\ exit' = [exit EXCEPT !.receiver = "bind"]
    /\ UNCHANGED <<main_pc, receiver_msg, runnerVars, sender_pc, ops_chan,
                   result_chan, logVars>>

\* rx.recv(&mut buf).await? returns datagram d; the loop body runs up to
\* `continue`, to a return, or to chan_tx.send(msg).
ReceiverRecv ==
    /\ receiver_pc = "recv"
    /\ Len(dgLog) < MaxDatagrams
    /\ \E d \in Datagrams :
         LET out == ReceiverBody(d, Len(dgLog) + 1) IN
         /\ dgLog' = Append(dgLog, d)
         /\ receiver_msg' = out.req
         /\ receiver_pc' = CASE out.to = "continue" -> "recv"
                             [] out.to = "send" -> "send"
                             [] OTHER -> "err"
         /\ exit' = IF out.to \in {"continue", "send"}
                    THEN exit
                    ELSE [exit EXCEPT !.receiver = out.err]
    /\ UNCHANGED <<main_pc, runnerVars, sender_pc, ops_chan, result_chan,
                   reqLog, procLog, simLog, retLog, respLog, sentLog>>

\* rx.recv(&mut buf).await? returns Err.
ReceiverRecvError ==
    /\ receiver_pc = "recv"
    /\ receiver_pc' = "err"
    /\ exit' = [exit EXCEPT !.receiver = "recv"]
    /\ UNCHANGED <<main_pc, receiver_msg, runnerVars, sender_pc, ops_chan,
                   result_chan, logVars>>

\* chan_tx.send(msg).await?: Err once ops_rx is dropped; else the Request is
\* enqueued when the channel has room; else the task stays suspended.
ReceiverSend ==
    /\ receiver_pc = "send"
    /\ IF Closed(runner_pc)
       THEN /\ receiver_pc' = "err"
            /\ exit' = [exit EXCEPT !.receiver = "channel closed"]
            /\ UNCHANGED <<ops_chan, reqLog>>
       ELSE /\ HasRoom(ops_chan)
            /\ ops_chan' = Enqueue(ops_chan, receiver_msg)
            /\ reqLog' = Append(reqLog, receiver_msg)
            /\ receiver_pc' = "recv"
            /\ exit' = exit
    /\ receiver_msg' = NoReq
    /\ UNCHANGED <<main_pc, runnerVars, sender_pc, result_chan, dgLog,
                   procLog, simLog, retLog, respLog, sentLog>>

(***************************************************************************)
(* runner_loop.                                                            *)
(***************************************************************************)
\* The strings the backend writes for one measurement: one character per
\* qubit of the circuit it ran.
ResultStrings == { <<"1">>, <<"0", "1">> }

\* c - b'0' for the characters of ResultStrings.
DigitOf(c) == IF c = "0" THEN 0 ELSE 1

\* Mutant of Apply: the instruction is put in front of the accumulated ones.
ApplyFront(o, req) ==
    [o EXCEPT !.insts =
        <<[op |-> req.kind, n1 |-> req.n1, n2 |-> req.n2, id |-> req.id]>>
            \o @]

\* The gate methods of BlueqatOperations and measure(): one instruction is
\* appended to the accumulator (with, as history, the id of its Request).
Apply(o, req) ==
    [o EXCEPT !.insts =
        Append(@, [op |-> req.kind, n1 |-> req.n1, n2 |-> req.n2,
                   id |-> req.id])]

\* (result.as_bytes()[n as usize] - b'0') as i32: the index panics when it is
\* out of bounds.
ByteAt(res, n) ==
    IF n >= 0 /\ n < Len(res)
    THEN [ok |-> TRUE, bit |-> DigitOf(res[n + 1])]
    ELSE [ok |-> FALSE, bit |-> 0]

\* Response::Mz(bit, 0.0), with the id of the Request it answers (history).
ResponseMz(bit, id) == [bit |-> bit, prob |-> 0, id |-> id]

\* Mutant of MzReset: the Mz arm keeps the accumulator it flushed.
MzResetKeep(o) == o

\* The accumulator the Mz arm leaves: ops = BlueqatOperations::new().
MzReset(o) == NewOps

\* Mutant of GateKinds: H falls into the arm that measures and answers.
GateKindsWithoutH == {"X", "Y", "Z", "CX"}

\* The variants whose arm only applies a gate to the accumulator.
GateKinds == {"X", "Y", "Z", "H", "CX"}

\* The variants whose arm measures, calls the backend and sends a Response.
MeasureKinds == HandledKinds \ GateKinds

\* Mutant of OnUnimplemented: the variant is logged and skipped.
OnUnimplementedSkip == "skip"

\* What the `_ => unimplemented!()` arm does: it panics.
OnUnimplemented == "panic"

\* Mutant of MzArmNext: the backend call is started and not awaited.
MzArmNextDetached == "recv"

\* Where the Mz arm is after ops.measure(..): in
\* sim.send_receive(&ops, &mut result).await, until the backend answers.
MzArmNext == "sim"

\* Mutant of ResultCleared: the string of the last measurement is kept.
ResultKept(res) == res

\* result.clear() at the end of the Mz arm.
ResultCleared(res) == <<>>

\* BlueqatSimulator::new().unwrap() panics or not; then
\* BlueqatOperations::new(), String::new(), ops.initialize().
RunnerStart ==
    /\ runner_pc = "start"
    /\ \/ /\ runner_pc' = "recv"
          /\ ops' = [NewOps EXCEPT !.init = TRUE]
          /\ exit' = exit
       \/ /\ runner_pc' = "panic"
          /\ ops' = ops
          /\ exit' = [exit EXCEPT !.runner = "BlueqatSimulator::new"]
    /\ result' = <<>>
    /\ UNCHANGED <<main_pc, receiverVars, runner_msg, runner_resp, sender_pc,
                   ops_chan, result_chan, logVars>>

\* ops_rx.recv().await returns Some(msg): a gate arm runs and the loop comes
\* back to recv; the Mz arm runs up to sim.send_receive(..).await; any other
\* variant reaches unimplemented!().
RunnerRecv ==
    /\ runner_pc = "recv"
    /\ ops_chan # <<>>
    /\ LET msg == Head(ops_chan) IN
       /\ ops_chan' = Tail(ops_chan)
       /\ IF msg.kind \in GateKinds
          THEN /\ ops' = Apply(ops, msg)
               /\ procLog' = Append(procLog, msg)
               /\ UNCHANGED <<runner_pc, runner_msg, simLog, exit>>
          ELSE IF msg.kind \in MeasureKinds
          THEN /\ ops' = Apply(ops, msg)
               /\ simLog' = Append(simLog, ops')
               /\ runner_msg' = msg
               /\ runner_pc' = MzArmNext
               /\ UNCHANGED <<procLog, exit>>
          ELSE IF OnUnimplemented = "panic"
          THEN /\ runner_pc' = "panic"
               /\ exit' = [exit EXCEPT !.runner = "unimplemented"]
               /\ UNCHANGED <<ops, runner_msg, procLog, simLog>>
          ELSE UNCHANGED <<runner_pc, exit, ops, runner_msg, procLog, simLog>>
    /\ UNCHANGED <<main_pc, receiverVars, runner_resp, result, sender_pc,
                   result_chan, dgLog, reqLog, retLog, respLog, sentLog>>

\* ops_rx.recv().await returns None: the channel is empty and ops_tx is
\* dropped; the loop ends and bail! returns Err.
RunnerRecvNone ==
    /\ runner_pc = "recv"
    /\ RecvNone(ops_chan, receiver_pc)
    /\ runner_pc' = "err"
    /\ exit' = [exit EXCEPT !.runner = "runner_loop unexpected exit"]
    /\ UNCHANGED <<main_pc, receiverVars, runner_msg, runner_resp, ops,
                   result, sender_pc, ops_chan, result_chan, logVars>>

\* sim.send_receive(&ops, &mut result).await returns, having written the
\* backend's string r to result; the bit is read and the Response built, up
\* to result_tx.send(..).await.
RunnerSimReturn ==
    /\ runner_pc = "sim"
    /\ \E r \in ResultStrings :
         LET res == result \o r
             b == ByteAt(res, runner_msg.n1)
         IN  /\ result' = res
             /\ retLog' = Append(retLog, r)
             /\ IF b.ok
                THEN /\ runner_resp' = ResponseMz(b.bit, runner_msg.id)
                     /\ runner_pc' = "send"
                     /\ exit' = exit
                ELSE /\ runner_resp' = runner_resp
                     /\ runner_pc' = "panic"
                     /\ exit' = [exit EXCEPT !.runner = "index out of bounds"]
    /\ UNCHANGED <<main_pc, receiverVars, runner_msg, ops, sender_pc,
                   ops_chan, result_chan, dgLog, reqLog, procLog, simLog,
                   respLog, sentLog>>

\* result_tx.send(..).await?: Err once result_rx is dropped; else the
\* Response is enqueued when the channel has room, and the arm ends with
\* ops = BlueqatOperations::new() and result.clear(); else the task stays
\* suspended.
RunnerSend ==
    /\ runner_pc = "send"
    /\ IF Closed(sender_pc)
       THEN /\ runner_pc' = "err"
            /\ exit' = [exit EXCEPT !.runner = "channel closed"]
            /\ UNCHANGED <<result_chan, respLog, procLog, ops, result>>
       ELSE /\ HasRoom(result_chan)
            /\ result_chan' = Enqueue(result_chan, runner_resp)
            /\ respLog' = Append(respLog, runner_resp)
            /\ procLog' = Append(procLog, runner_msg)
            /\ ops' = MzReset(ops)
            /\ result' = ResultCleared(result)
            /\ runner_pc' = "recv"
            /\ exit' = exit
    /\ runner_msg' = NoReq
    /\ runner_resp' = NoResp
    /\ UNCHANGED <<main_pc, receiverVars, sender_pc, ops_chan, dgLog, reqLog,
                   simLog, retLog, sentLog>>

(***************************************************************************)
(* sender_loop.                                                            *)
(***************************************************************************)
\* OscPacket::Message(OscMessage::from(&msg)): a bare message for the
\* Response, carrying its bit and probability (and, as history, its id).
Encode(resp) ==
    [tag |-> "message", addr |-> "Mz", bit |-> resp.bit, prob |-> resp.prob,
     id |-> resp.id]

\* Mutant of Transmit: the datagram never reaches the wire.
TransmitNothing(wire, packet) == wire

\* tx.send_to(&msg_vec, send_to) returns Ok: the datagram is on the wire,
\* after the ones sent before it.
Transmit(wire, packet) == Append(wire, packet)

\* std::net::UdpSocket::bind("0.0.0.0:9999")? succeeds or fails.
SenderBind ==
    /\ sender_pc = "bind"
    /\ \/ /\ sender_pc' = "recv"
          /\ exit' = exit
       \/ /\ sender_pc' = "err"
          /\ exit' = [exit EXCEPT !.sender = "bind"]
    /\ UNCHANGED <<main_pc, receiverVars, runnerVars, ops_chan, result_chan,
                   logVars>>

\* chan_rx.recv().await returns Some(msg): the Response is encoded and sent
\* with tx.send_to, or the encoder or the socket returns Err.
SenderRecv ==
    /\ sender_pc = "recv"
    /\ result_chan # <<>>
    /\ result_chan' = Tail(result_chan)
    /\ \/ /\ sentLog' = Transmit(sentLog, Encode(Head(result_chan)))
          /\ UNCHANGED <<sender_pc, exit>>
       \/ /\ sender_pc' = "err"
          /\ exit' = [exit EXCEPT !.sender = "encode"]
          /\ sentLog' = sentLog
       \/ /\ sender_pc' = "err"
          /\ exit' = [exit EXCEPT !.sender = "send_to"]
          /\ sentLog' = sentLog
    /\ UNCHANGED <<main_pc, receiverVars, runnerVars, ops_chan, dgLog, reqLog,
                   procLog, simLog, retLog, respLog>>

\* chan_rx.recv().await returns None: the channel is empty and result_tx is
\* dropped; the loop ends and bail! returns Err.
SenderRecvNone ==
    /\ sender_pc = "recv"
    /\ RecvNone(result_chan, runner_pc)
    /\ sender_pc' = "err"
    /\ exit' = [exit EXCEPT !.sender = "sender_loop: unexpected finished"]
    /\ UNCHANGED <<main_pc, receiverVars, runnerVars, ops_chan, result_chan,
                   logVars>>

(***************************************************************************)
(* main.                                                                   *)
(***************************************************************************)
\* Mutant of Abort: the task is left running.
AbortNothing(pc) == pc

\* JoinHandle::abort() on a task in state pc: a task that has not ended is
\* cancelled where it is suspended; one that has ended is left as it is.
Abort(pc) == IF Ended(pc) THEN pc ELSE "aborted"

\* A task in state pc when the runtime shuts down: it is dropped where it is
\* suspended.
Dropped(pc) == IF Ended(pc) THEN pc ELSE "aborted"

\* Mutant of MainResult: the failure of a stage becomes main's result.
MainResultOfStages ==
    IF \E t \in {"receiver", "runner", "sender"} : exit[t] # ""
    THEN "err"
    ELSE "ok"

\* What main returns after the three aborts: Ok(()).
MainResult == "ok"

\* ctrl_c().await returns Ok: receiver.abort(); runner.abort();
\* sender.abort(); Ok(()).
CtrlC ==
    /\ main_pc = "wait"
    /\ main_pc' = MainResult
    /\ exit' = [exit EXCEPT !.main = "interrupt"]
    /\ receiver_pc' = Abort(receiver_pc)
    /\ runner_pc' = Abort(runner_pc)
    /\ sender_pc' = Abort(sender_pc)
    /\ UNCHANGED <<receiver_msg, runner_msg, runner_resp, ops, result,
                   ops_chan, result_chan, logVars>>

\* ctrl_c().await returns Err: `?` returns it from main, and the runtime
\* that main's return shuts down drops the three tasks.  The Err is the
\* failure to install the signal handler, met when main first polls
\* ctrl_c(), right after the spawns: before the Receiver has a datagram.
CtrlCError ==
    /\ main_pc = "wait"
    /\ dgLog = <<>>
    /\ main_pc' = "err"
    /\ exit' = [exit EXCEPT !.main = "ctrl_c"]
    /\ receiver_pc' = Dropped(receiver_pc)
    /\ runner_pc' = Dropped(runner_pc)
    /\ sender_pc' = Dropped(sender_pc)
    /\ UNCHANGED <<receiver_msg, runner_msg, runner_resp, ops, result,
                   ops_chan, result_chan, logVars>>

(***************************************************************************)
(* Specifications.                                                         *)
(***************************************************************************)
Receiver == ReceiverBind \/ ReceiverRecv \/ ReceiverRecvError \/ ReceiverSend
Runner == RunnerStart \/ RunnerRecv \/ RunnerRecvNone \/ RunnerSimReturn \/ RunnerSend
Sender == SenderBind \/ SenderRecv \/ SenderRecvNone

Next == Receiver \/ Runner \/ Sender \/ CtrlC \/ CtrlCError

Spec == Init /\ [][Next]_vars

\* The steps the tokio runtime takes on its own once they are enabled: a
\* task that can run is polled.  The arrival of a datagram, of the interrupt
\* and of an I/O error are the environment's.
ReceiverScheduled == ReceiverBind \/ ReceiverSend
RunnerScheduled ==
    RunnerStart \/ RunnerRecv \/ RunnerRecvNone \/ RunnerSimReturn \/ RunnerSend
SenderScheduled == SenderBind \/ SenderRecv \/ SenderRecvNone

FairSpec ==
    /\ Spec
    /\ WF_vars(ReceiverScheduled)
    /\ WF_vars(RunnerScheduled)
    /\ WF_vars(SenderScheduled)

(***************************************************************************)
(* Properties.                                                             *)
(***************************************************************************)
IsPrefix(a, b) ==
    /\ Len(a) <= Len(b)
    /\ \A k \in 1..Len(a) : a[k] = b[k]

IsMz(r) == r.kind = "Mz"

\* The Mz Requests of a sequence of Requests, in its order.
MzOf(reqs) == SelectSeq(reqs, IsMz)

\* C1: the packets the Sender transmitted are, in order, the encodings of a
\* prefix of the Responses the Runner pushed, and the k-th Response pushed
\* answers the k-th Mz Request the Receiver pushed: no Response is
\* reordered or duplicated on the way.
C1_Fifo ==
    /\ IsPrefix(sentLog, [k \in 1..Len(respLog) |-> Encode(respLog[k])])
    /\ Len(respLog) <= Len(MzOf(reqLog))
    /\ \A k \in 1..Len(respLog) : respLog[k].id = MzOf(reqLog)[k].id

\* C1's case: two Responses were transmitted and a third one is pushed.
C1_Witness == Len(sentLog) >= 2 /\ Len(respLog) > Len(sentLog)

\* The datagrams whose packet is an empty bundle, a bundle of two or more
\* elements, or a bundle whose single element is a bundle.
Misframed(d) ==
    /\ d.tag = "bundle"
    /\ \/ Len(d.content) # 1
       \/ d.content[1].tag # "message"

FramingErrors ==
    { "Received empty bundle.", "Multiple messages in same bundle.",
      "Received nested bundle." }

\* C2 (the claim as stated): a datagram that decodes to a bundle of zero
\* elements, of two or more elements, or of one nested bundle pushes no
\* Request and does not end the Receiver.
C2_FramingTolerated ==
    \A i \in 1..Len(dgLog) :
        Misframed(dgLog[i]) =>
            /\ \A k \in 1..Len(reqLog) : reqLog[k].id # i
            /\ exit.receiver \notin FramingErrors

\* C3: when the codec cannot decode the datagram rx.recv returned, the
\* Receiver pushes no Request, leaves the request channel as it is, keeps
\* running and is back in rx.recv for the next datagram.
C3_DecodeErrorDiscarded ==
    [][ (Len(dgLog') = Len(dgLog) + 1 /\ ~Decode(dgLog'[Len(dgLog')]).ok)
        => /\ ops_chan' = ops_chan
           /\ reqLog' = reqLog
           /\ receiver_msg' = NoReq
           /\ receiver_pc' = "recv"
           /\ exit'.receiver = "" ]_vars

\* C3's case: a datagram that does not decode was followed by a datagram
\* whose Request was pushed.
C3_Witness ==
    \E i \in 1..Len(dgLog) :
        /\ ~Decode(dgLog[i]).ok
        /\ \E k \in 1..Len(reqLog) : reqLog[k].id > i

\* The datagrams whose packet is correctly framed (a bare message or a
\* bundle of one message): the message they carry.
Framed(d) ==
    \/ d.tag = "message"
    \/ d.tag = "bundle" /\ Len(d.content) = 1 /\ d.content[1].tag = "message"

MessageOf(d) == IF d.tag = "message" THEN d.msg ELSE d.content[1].msg

\* C4 (the claim as stated): a correctly framed message that converts to no
\* Request pushes no Request and does not end the Receiver.
C4_ConvertErrorTolerated ==
    \A i \in 1..Len(dgLog) :
        (Framed(dgLog[i]) /\ MessageOf(dgLog[i]).addr \notin RequestKinds) =>
            /\ \A k \in 1..Len(reqLog) : reqLog[k].id # i
            /\ exit.receiver # "try_from"

\* C5: when the Runner has finished an Mz Request (its Response pushed, the
\* loop back at recv), the accumulator holds no instruction; and a circuit
\* handed to the backend holds no instruction of a Request that came before
\* the previous measurement.
C5_AccumulatorReset ==
    /\ (runner_pc = "recv" /\ procLog # <<>> /\ IsMz(procLog[Len(procLog)]))
           => Len(ops.insts) = 0
    /\ \A k \in 2..Len(simLog) :
           \A i \in 1..Len(simLog[k].insts) :
               simLog[k].insts[i].id
                   > simLog[k-1].insts[Len(simLog[k-1].insts)].id

\* C5's case: a gate and a measurement were flushed, the measurement is
\* finished, and a second circuit was handed to the backend.
C5_Witness ==
    /\ Len(simLog) >= 2
    /\ Len(simLog[1].insts) >= 2
    /\ respLog # <<>>

\* C6: the Requests the Runner has finished are the first ones pushed to it,
\* and the Responses pushed are exactly one per finished Mz Request, in
\* order, and none for a finished X, Y, Z, H or CX.
C6_OneResponsePerMz ==
    /\ IsPrefix(procLog, reqLog)
    /\ Len(respLog) = Len(MzOf(procLog))
    /\ \A k \in 1..Len(respLog) : respLog[k].id = MzOf(procLog)[k].id

\* C6's case: the Runner has finished a gate Request and an Mz Request.
C6_Witness ==
    /\ \E k \in 1..Len(procLog) : procLog[k].kind \in {"H", "CX"}
    /\ \E k \in 1..Len(procLog) : IsMz(procLog[k])
    /\ Len(respLog) = 1

\* C7: no channel ever holds more than QUEUE_LEN items; a producer that is
\* in send on a full channel stays there with its item and without an error
\* (unless its consumer ends or the interrupt cancels it); and a producer
\* leaves send only by enqueuing its item behind the queued ones, by the
\* error of a closed channel, or by cancellation.
C7_Capacity ==
    /\ [](Len(ops_chan) <= QUEUE_LEN /\ Len(result_chan) <= QUEUE_LEN)
    /\ [][ /\ (receiver_pc = "send" /\ receiver_pc' # "send") =>
                \/ /\ ops_chan' = Append(ops_chan, receiver_msg)
                   /\ receiver_pc' = "recv"
                \/ Ended(runner_pc) /\ exit'.receiver = "channel closed"
                \/ receiver_pc' = "aborted"
           /\ (receiver_pc = "send" /\ receiver_pc' = "send") =>
                receiver_msg' = receiver_msg /\ exit'.receiver = ""
           /\ (runner_pc = "send" /\ runner_pc' # "send") =>
                \/ /\ result_chan' = Append(result_chan, runner_resp)
                   /\ runner_pc' = "recv"
                \/ Ended(sender_pc) /\ exit'.runner = "channel closed"
                \/ runner_pc' = "aborted"
           /\ (runner_pc = "send" /\ runner_pc' = "send") =>
                runner_resp' = runner_resp /\ exit'.runner = ""
         ]_vars

\* C7, the progress it adds under FairSpec (not part of C7_Capacity): a
\* producer in send leaves it, by the enqueue once its consumer has freed a
\* slot, or by one of the two other ways C7_Capacity allows.
C7_Progress ==
    /\ (receiver_pc = "send") ~> (receiver_pc # "send")
    /\ (runner_pc = "send") ~> (runner_pc # "send")

\* C7's case: the Receiver is suspended in send on a full request channel
\* while the Runner is alive.
C7_Witness ==
    /\ receiver_pc = "send"
    /\ Len(ops_chan) = QUEUE_LEN
    /\ ~Ended(runner_pc)

\* C8: once main has returned from the interrupt, the three tasks have
\* ended, and from then on no channel and no history changes: nothing queued
\* is processed or transmitted.
C8_InterruptCancels ==
    /\ [](main_pc = "ok" =>
            Ended(receiver_pc) /\ Ended(runner_pc) /\ Ended(sender_pc))
    /\ [][main_pc = "ok" =>
            UNCHANGED <<ops_chan, result_chan, logVars, main_pc>>]_vars

\* C8's case: the interrupt came while Requests and Responses were queued
\* and cancelled the three tasks.
C8_Witness ==
    /\ main_pc = "ok"
    /\ ops_chan # <<>>
    /\ result_chan # <<>>
    /\ receiver_pc = "aborted" /\ runner_pc = "aborted" /\ sender_pc = "aborted"

\* The fatal conditions of a stage: a transport failure (bind, receive,
\* send) or a closed channel.
Fatal ==
    \/ exit.receiver \in {"bind", "recv", "channel closed"}
    \/ exit.runner \in {"channel closed", "runner_loop unexpected exit"}
    \/ exit.sender \in {"bind", "send_to", "sender_loop: unexpected finished"}

\* C9 (the claim as stated): once a stage has hit a fatal condition, the
\* process eventually terminates.
C9_FatalTerminates == Fatal ~> (main_pc # "wait")

\* The correctly framed datagrams whose message converts to a Request.
Accepted(d) == Framed(d) /\ MessageOf(d).addr \in RequestKinds

\* The places of reqLog that hold the Request of the i-th datagram.
PushesOf(i) == { k \in 1..Len(reqLog) : reqLog[k].id = i }

\* C10: no datagram has more than one Request pushed; a datagram that is not
\* accepted has none; an accepted one, bare or in a bundle, has exactly one,
\* the Request of its message, as soon as the Receiver is done with it, and
\* has none only while the Receiver is in send with it, or when that send
\* ended on a closed channel or was cancelled.
C10_OneRequestPerDatagram ==
    \A i \in 1..Len(dgLog) :
        LET d == dgLog[i] IN
        /\ Cardinality(PushesOf(i)) <= 1
        /\ ~Accepted(d) => PushesOf(i) = {}
        /\ Accepted(d) =>
             /\ \A k \in PushesOf(i) :
                    /\ reqLog[k].kind = MessageOf(d).addr
                    /\ reqLog[k].n1 = MessageOf(d).n1
                    /\ reqLog[k].n2 = MessageOf(d).n2
             /\ (i < Len(dgLog) \/ receiver_pc = "recv") => PushesOf(i) # {}
             /\ PushesOf(i) = {} =>
                    \/ receiver_pc \in {"send", "aborted"} /\ receiver_msg.id = i
                    \/ exit.receiver = "channel closed"

\* C10's case: a bare message and a bundle of one message each had their
\* Request pushed.
C10_Witness ==
    \E i, j \in 1..Len(dgLog) :
        /\ dgLog[i].tag = "message" /\ PushesOf(i) # {}
        /\ dgLog[j].tag = "bundle" /\ PushesOf(j) # {}

\* The Requests the Runner has taken from the request channel: the pushed
\* ones that are no longer queued.
Dequeued == SubSeq(reqLog, 1, Len(reqLog) - Len(ops_chan))

\* The place in reqs of its k-th Mz Request (0 for k = 0).
RECURSIVE MzPlace(_, _)
MzPlace(reqs, k) ==
    IF k = 0
    THEN 0
    ELSE LET prev == MzPlace(reqs, k - 1) IN
         CHOOSE i \in (prev + 1)..Len(reqs) :
             /\ IsMz(reqs[i])
             /\ \A j \in (prev + 1)..(i - 1) : ~IsMz(reqs[j])

\* An instruction of the accumulator is the instruction of Request r.
InstOf(inst, r) ==
    /\ inst.op = r.kind
    /\ inst.n1 = r.n1
    /\ inst.n2 = r.n2
    /\ inst.id = r.id

\* C11: the backend is called once for each Mz Request the Runner has taken
\* and for no other Request, and the k-th circuit handed to it consists of
\* the Requests pushed after the (k-1)-th Mz up to the k-th Mz, in the order
\* the Receiver pushed them, the measurement last.
C11_CircuitIsSegment ==
    /\ Len(simLog) = Len(MzOf(Dequeued))
    /\ \A k \in 1..Len(simLog) :
         LET from == MzPlace(reqLog, k - 1)
             to == MzPlace(reqLog, k)
             insts == simLog[k].insts
         IN  /\ Len(insts) = to - from
             /\ \A i \in 1..Len(insts) : InstOf(insts[i], reqLog[from + i])

\* C11's case: the circuit of a measurement holds two different gates, in
\* the order they were received, and the measurement.
C11_Witness ==
    \E k \in 1..Len(simLog) :
        /\ Len(simLog[k].insts) = 3
        /\ simLog[k].insts[1].op = "H"
        /\ simLog[k].insts[2].op = "CX"
        /\ simLog[k].insts[3].op = "Mz"

\* C12: the k-th Response pushed is Mz(bit, 0.0) with bit the digit at the
\* index of the measured qubit in the k-th string the backend wrote (the
\* string of this measurement, not what an earlier one left in result), and
\* bit is 0 or 1.
C12_BitOfThisResult ==
    /\ Len(respLog) <= Len(retLog)
    /\ \A k \in 1..Len(respLog) :
         LET n == MzOf(reqLog)[k].n1 IN
         /\ n + 1 \in 1..Len(retLog[k])
         /\ respLog[k].bit = (IF retLog[k][n + 1] = "1" THEN 1 ELSE 0)
         /\ respLog[k].bit \in {0, 1}
         /\ respLog[k].prob = 0

\* C12's case: two measurements were answered with different bits.
C12_Witness ==
    /\ Len(respLog) >= 2
    /\ respLog[1].bit # respLog[2].bit

\* C13: nothing is pushed onto a channel whose consumer has ended, and a
\* producer that is in send when its consumer has ended leaves send only
\* with the error of the closed channel (or cancelled by the interrupt):
\* the Receiver with its next accepted Request once the Runner has ended,
\* the Runner with its next Mz once the Sender has ended.
C13_ClosedChannelFatal ==
    [][ /\ runner_pc \in Finals => reqLog' = reqLog /\ ops_chan' = ops_chan
        /\ (runner_pc \in Finals /\ receiver_pc = "send"
                /\ receiver_pc' # "send") =>
             \/ receiver_pc' = "err" /\ exit'.receiver = "channel closed"
             \/ receiver_pc' = "aborted"
        /\ sender_pc \in Finals => respLog' = respLog /\ result_chan' = result_chan
        /\ (sender_pc \in Finals /\ runner_pc = "send" /\ runner_pc' # "send") =>
             \/ runner_pc' = "err" /\ exit'.runner = "channel closed"
             \/ runner_pc' = "aborted"
      ]_vars

\* C13's case: the Sender ended, the Runner met the closed response channel
\* at its next Mz, and the Receiver met the closed request channel at its
\* next Request.
C13_Witness ==
    /\ exit.sender # ""
    /\ exit.runner = "channel closed"
    /\ exit.receiver = "channel closed"

\* C14: a taken Request whose variant is none of X, Y, Z, H, CX, Mz is the
\* last one the Runner takes: the Runner has panicked at it, it is not
\* finished, no Response answers it, and what is queued after it stays
\* queued.
C14_UnimplementedFatal ==
    \A i \in 1..Len(Dequeued) :
        reqLog[i].kind \notin {"X", "Y", "Z", "H", "CX", "Mz"} =>
            /\ i = Len(Dequeued)
            /\ runner_pc = "panic"
            /\ exit.runner = "unimplemented"
            /\ \A k \in 1..Len(procLog) : procLog[k].id # reqLog[i].id
            /\ \A k \in 1..Len(respLog) : respLog[k].id # reqLog[i].id

\* C14's case: the Runner panicked at an unimplemented Request while
\* another Request was queued behind it.
C14_Witness ==
    /\ exit.runner = "unimplemented"
    /\ ops_chan # <<>>

\* C15: at most one backend call is unanswered at any time; while the
\* Runner is in the call it takes no Request, hands nothing more to the
\* backend and leaves the accumulator alone; and in that time a Receiver
\* that holds a Request can enqueue it when the channel has room, and a
\* Sender can transmit a queued Response.
C15_OneCallInFlight ==
    /\ [](/\ Len(simLog) - Len(retLog) \in {0, 1}
          /\ runner_pc = "sim" => Len(simLog) - Len(retLog) = 1
          /\ (runner_pc = "sim" /\ receiver_pc = "send"
                  /\ Len(ops_chan) < QUEUE_LEN) => ENABLED ReceiverSend
          /\ (runner_pc = "sim" /\ sender_pc = "recv" /\ result_chan # <<>>)
                  => ENABLED SenderRecv)
    /\ [][runner_pc = "sim" =>
            /\ ops' = ops
            /\ simLog' = simLog
            /\ procLog' = procLog
            /\ Len(ops_chan') >= Len(ops_chan)]_vars

\* C15's case: during a backend call the Receiver holds a Request for a
\* channel with room and a Response waits for the Sender.
C15_Witness ==
    /\ runner_pc = "sim"
    /\ receiver_pc = "send"
    /\ Len(ops_chan) < QUEUE_LEN
    /\ sender_pc = "recv"
    /\ result_chan # <<>>

\* C16: the end of a stage, by error or panic, never changes main, which
\* stays in ctrl_c and can still take the interrupt; and when the interrupt
\* comes main returns Ok and the three tasks have ended, whether or not a
\* stage had failed before.
C16_OnlyInterrupt ==
    /\ [](main_pc = "wait" => ENABLED CtrlC)
    /\ [][ /\ (exit'.receiver # exit.receiver \/ exit'.runner # exit.runner
                  \/ exit'.sender # exit.sender) => main_pc' = main_pc
           /\ main_pc' # main_pc => main_pc = "wait" /\ exit'.main # ""
           /\ (main_pc' # main_pc /\ exit'.main = "interrupt") =>
                /\ main_pc' = "ok"
                /\ receiver_pc' \in Finals
                /\ runner_pc' \in Finals
                /\ sender_pc' \in Finals
         ]_vars

\* C16's case: the three stages had failed, main went on waiting, and the
\* interrupt made it return Ok.
C16_Witness ==
    /\ exit.receiver # "" /\ exit.runner # "" /\ exit.sender # ""
    /\ exit.main = "interrupt"
    /\ main_pc = "ok"

\* C18: a consumer ends on a closed channel only when its producer has
\* ended and the channel is empty, every item pushed having been handled:
\* the Runner has finished every Request pushed, the Sender has transmitted
\* every Response pushed.  And until then a consumer whose producer has
\* ended is not stuck: it can take a step, or it waits for a task that can.
C18_Cascade ==
    /\ exit.runner = "runner_loop unexpected exit" =>
         /\ receiver_pc \in Finals
         /\ ops_chan = <<>>
         /\ procLog = reqLog
    /\ exit.sender = "sender_loop: unexpected finished" =>
         /\ runner_pc \in Finals
         /\ result_chan = <<>>
         /\ sentLog = [k \in 1..Len(respLog) |-> Encode(respLog[k])]
    /\ (sender_pc \notin Finals /\ runner_pc \in Finals) =>
         ENABLED SenderScheduled
    /\ (runner_pc \notin Finals /\ receiver_pc \in Finals) =>
         \/ ENABLED RunnerScheduled
         \/ runner_pc = "send" /\ ENABLED SenderScheduled

\* C18's case: the Receiver ended with Requests queued, the Runner finished
\* them and ended on the closed channel, and the Sender transmitted the
\* Responses and ended on the closed channel.
C18_Witness ==
    /\ exit.receiver # ""
    /\ exit.runner = "runner_loop unexpected exit"
    /\ exit.sender = "sender_loop: unexpected finished"
    /\ Len(procLog) >= 2
    /\ sentLog # <<>>

\* A circuit without the history ids of its instructions.
CircuitOf(o) ==
    [k \in 1..Len(o.insts) |->
        [op |-> o.insts[k].op, n1 |-> o.insts[k].n1, n2 |-> o.insts[k].n2]]

\* C19 (the claim as stated): the accumulator that replaces the flushed one
\* is in the state of the one the Runner starts with, created and
\* initialized, and two measurements with the same gate sequence hand the
\* same accumulator to the backend, the first of the run or a later one.
C19_ResetAsStart ==
    /\ (runner_pc = "recv" /\ ops.insts = <<>>) => ops.init
    /\ \A j, k \in 1..Len(simLog) :
         CircuitOf(simLog[j]) = CircuitOf(simLog[k])
             => simLog[j].init = simLog[k].init

\* The run is disturbed: main has left ctrl_c (interrupt or its failure) or
\* a stage has ended.
Disturbed ==
    \/ main_pc # "wait"
    \/ receiver_pc \in Finals
    \/ runner_pc \in Finals
    \/ sender_pc \in Finals

\* The number of datagrams transmitted for the Request made from datagram id.
SentFor(id) == Cardinality({k \in 1..Len(sentLog) : sentLog[k].id = id})

\* C17: under FairSpec, where each stage that can step does and the backend
\* call returns, a run that is never disturbed transmits exactly one
\* Response datagram for every Mz Request pushed; and in every run no
\* Request has more than one datagram, a gate Request none.
C17_MzAnswered ==
    /\ [](\A i \in 1..Len(reqLog) :
            SentFor(reqLog[i].id) <= (IF IsMz(reqLog[i]) THEN 1 ELSE 0))
    /\ []<>(\/ Disturbed
            \/ \A i \in 1..Len(reqLog) :
                 IsMz(reqLog[i]) => SentFor(reqLog[i].id) = 1)

\* C17's case: two Mz Requests were pushed, nothing disturbed the run, and
\* one datagram was transmitted for each.
C17_Witness ==
    /\ ~Disturbed
    /\ Len(MzOf(reqLog)) >= 2
    /\ \A i \in 1..Len(reqLog) :
         IsMz(reqLog[i]) => SentFor(reqLog[i].id) = 1

====
